---- MODULE Spec2Model ----
(***************************************************************************)
(* A model of bundle-gen's generator: src/src/generate.rs (file            *)
(* collection, archive insertion, build phase, manifest composition),     *)
(* src/src/ldcache.rs (the ELF dependency resolver) and src/src/config.rs  *)
(* (the specification checks).                                             *)
(*                                                                         *)
(* Strings (archive names, paths, sonames) are sequences of one-character  *)
(* strings, so that splitting on '.', splitting on '/' and the byte order  *)
(* of BTreeMap<String, _> are computed as the code computes them.          *)
(* An Option is a sequence of length 0 (None) or 1 (Some).                 *)
(***************************************************************************)
EXTENDS Integers, Sequences, FiniteSets, TLC

\* ------------------------------------------------------------------------
\* Bounds of the model
\* ------------------------------------------------------------------------

\* the most DT_NEEDED entries read from the scanned files in one run
MaxNeeded == 2

\* the largest number of items nominated over the four lists of a BuildSpec
MaxItems == 2

\* the longest entry list handed to insert_files in SpecInsert
MaxEntries == 3

\* ------------------------------------------------------------------------
\* Strings
\* ------------------------------------------------------------------------

None == <<>>

Some(v) == <<v>>

\* the characters the model uses, in ASCII order
Ascii ==
    << "-", ".", "/", "0", "1", "2", "3", "4", "5", "6", "7", "8", "9", "_",
       "a", "b", "c", "d", "e", "f", "g", "h", "i", "j", "k", "l", "m",
       "n", "o", "p", "q", "r", "s", "t", "u", "v", "w", "x", "y", "z" >>

Ord == [c \in {Ascii[i] : i \in 1..Len(Ascii)} |->
            CHOOSE i \in 1..Len(Ascii) : Ascii[i] = c]

\* the order of Rust's String (byte-wise lexicographic), strict
RECURSIVE StrLess(_, _)
StrLess(a, b) ==
    IF b = <<>> THEN FALSE
    ELSE IF a = <<>> THEN TRUE
    ELSE IF Head(a) = Head(b) THEN StrLess(Tail(a), Tail(b))
    ELSE Ord[Head(a)] < Ord[Head(b)]

\* str::split(c): the pieces between the occurrences of c, empty ones kept
RECURSIVE Split(_, _)
Split(s, c) ==
    IF \A i \in 1..Len(s) : s[i] # c THEN <<s>>
    ELSE LET k == CHOOSE i \in 1..Len(s) :
                      s[i] = c /\ \A j \in 1..(i - 1) : s[j] # c
         IN  <<SubSeq(s, 1, k - 1)>> \o Split(SubSeq(s, k + 1, Len(s)), c)

\* [String]::join(c)
RECURSIVE JoinWith(_, _)
JoinWith(parts, c) ==
    IF parts = <<>> THEN <<>>
    ELSE IF Len(parts) = 1 THEN parts[1]
    ELSE parts[1] \o <<c>> \o JoinWith(Tail(parts), c)

EndsWith(s, c) == s # <<>> /\ s[Len(s)] = c

IsPrefixOf(p, s) == Len(p) <= Len(s) /\ SubSeq(s, 1, Len(p)) = p

Range(s) == {s[i] : i \in 1..Len(s)}

\* ------------------------------------------------------------------------
\* std::path::Path, on paths without "." and ".." components
\* ------------------------------------------------------------------------

Slash == "/"

Dot == "."

HasRoot(p) == p # <<>> /\ p[1] = Slash

\* the normal components of p (empty pieces between slashes are dropped)
PathComponents(p) ==
    LET parts == Split(p, Slash)
    IN  SelectSeq(parts, LAMBDA x : x # <<>>)

\* the path made of the first k components of p
PathOfComponents(root, comps) ==
    (IF root THEN <<Slash>> ELSE <<>>) \o JoinWith(comps, Slash)

\* Path::file_name
FileName(p) ==
    LET comps == PathComponents(p)
    IN  IF comps = <<>> THEN None ELSE Some(comps[Len(comps)])

\* Path::parent
Parent(p) ==
    LET comps == PathComponents(p)
    IN  IF comps = <<>> THEN None
        ELSE Some(PathOfComponents(HasRoot(p), SubSeq(comps, 1, Len(comps) - 1)))

\* Path::join
PathJoin(a, b) ==
    IF HasRoot(b) THEN b
    ELSE IF a = <<>> THEN b
    ELSE IF EndsWith(a, Slash) THEN a \o b
    ELSE a \o <<Slash>> \o b

\* Path::ancestors: p, its parent, ... down to the root or the empty path
RECURSIVE Ancestors(_)
Ancestors(p) ==
    IF Parent(p) = None THEN <<p>>
    ELSE <<p>> \o Ancestors(Parent(p)[1])

Reverse(s) == [i \in 1..Len(s) |-> s[Len(s) + 1 - i]]

\* ------------------------------------------------------------------------
\* Program constants: the strings the code names
\* ------------------------------------------------------------------------

BIN == <<"b", "i", "n">>

LIB == <<"l", "i", "b">>

RESDIR == <<"r", "e", "s">>

UNUSED == <<"_", "u", "n", "u", "s", "e", "d">>

RUN_SH == <<"r", "u", "n", ".", "s", "h">>

LAUNCH_SH == <<"l", "a", "u", "n", "c", "h", ".", "s", "h">>

RUNNER_PATCH == <<"r", "u", "n", "n", "e", "r", "-", "p", "a", "t", "c", "h">>

\* the manifest's name in the archive (written by atari_bundle's to_archive)
BUNDLE_INI == <<"b", "u", "n", "d", "l", "e", ".", "i", "n", "i">>

\* ------------------------------------------------------------------------
\* The build host: a file system, the two roots of the PathContext, the
\* build environment's ld.so.cache
\* ------------------------------------------------------------------------

\* the working directory and the directory of the specification file
WorkDir == <<"/", "w">>

SpecDir == <<"/", "u">>

F_a == <<"/", "w", "/", "a">>

F_f1 == <<"/", "w", "/", "f", ".", "1">>

L_f == <<"/", "w", "/", "f">>

F_g1 == <<"/", "u", "/", "g", ".", "1">>

L_g == <<"/", "u", "/", "g">>

F_h == <<"/", "u", "/", "h">>

F_v == <<"/", "w", "/", "v">>

D_d == <<"/", "w", "/", "d">>

F_dx == <<"/", "w", "/", "d", "/", "x">>

D_de == <<"/", "w", "/", "d", "/", "e">>

F_dey == <<"/", "w", "/", "d", "/", "e", "/", "y">>

F_p == <<"/", "w", "/", "p">>

\* regular files
RegularFiles == {F_a, F_f1, F_g1, F_h, F_v, F_dx, F_dey, F_p}

\* directories below the working directory
Directories == {D_d, D_de}

\* symbolic links and the file each one resolves to
Symlinks == (L_f :> F_f1) @@ (L_g :> F_g1)

StripSlash(p) == IF Len(p) > 1 /\ EndsWith(p, Slash) THEN SubSeq(p, 1, Len(p) - 1) ELSE p

\* Path::exists; a path that ends in a slash names a directory or nothing
Exists(p) ==
    IF p # StripSlash(p) THEN StripSlash(p) \in Directories
    ELSE p \in RegularFiles \cup Directories \cup DOMAIN Symlinks

\* fs::canonicalize: Some(the file behind p), None when p does not exist
Canonicalize(p) ==
    LET q == StripSlash(p)
    IN  IF ~Exists(p) THEN None
        ELSE IF q \in DOMAIN Symlinks THEN Some(Symlinks[q])
        ELSE Some(q)

\* the entries read_dir reports for a directory, as paths
ReadDir(p) ==
    IF p = D_d THEN <<F_dx, D_de>>
    ELSE IF p = D_de THEN <<F_dey>>
    ELSE <<>>

\* sonames
N_a == <<"a">>

N_f == <<"f">>

N_f1 == <<"f", ".", "1">>

N_g == <<"g">>

N_g1 == <<"g", ".", "1">>

N_h == <<"h">>

N_m == <<"m">>

\* further items a specification may name: the version file, a patch file,
\* a directory without and with a trailing slash, a file that does not exist
N_v == <<"v">>

N_p == <<"p">>

N_d == <<"d">>

N_dslash == <<"d", "/">>

N_dx == <<"d", "/", "x">>

N_de == <<"d", "/", "e">>

N_aslash == <<"a", "/">>

N_z == <<"z">>

\* the sonames a DT_NEEDED entry may name
Sonames == {N_f, N_f1, N_g, N_g1, N_h, N_m}

\* the build environment's ld.so.cache (ldcache_rs::Cache::new); m is a
\* soname of h's file that is no dot-prefix of the file's name
BuildCache == (N_g :> F_g1) @@ (N_g1 :> F_g1) @@ (N_h :> F_h) @@ (N_m :> F_h)

\* a build cache that finds a file for every soname
GetPathFallback(d) == Some(F_h)

\* Cache::get_path
GetPath(d) == IF d \in DOMAIN BuildCache THEN Some(BuildCache[d]) ELSE None

\* the sonames a baseline cache may hold
BaseCandidates == {N_f, N_h}

\* the baseline caches of the model: an empty one and a full one
Baselines == {{}, BaseCandidates}

\* ------------------------------------------------------------------------
\* Errors
\* ------------------------------------------------------------------------

\* a BuildError: its variant, the string it carries, and for a wrapped
\* BundleSpecError that error's variant
Err(kind, arg) == [kind |-> kind, arg |-> arg, why |-> ""]

BundleSpecErr(why) == [kind |-> "BundleSpec", arg |-> <<>>, why |-> why]

\* InvalidField(field) and MissingField(field)
FieldErr(kind, field) == [kind |-> kind, arg |-> <<>>, why |-> field]

\* ------------------------------------------------------------------------
\* PathContext and the file collector (generate.rs)
\* ------------------------------------------------------------------------

FileEntry(location, name) == [location |-> location, name |-> name]

\* PathContext::new(vec![wd, spec_dir])
Locations == <<WorkDir, SpecDir>>

\* PathContext::find_path: Some(the first root/target that exists)
FindPath(target) ==
    LET hits == {i \in 1..Len(Locations) : Exists(PathJoin(Locations[i], target))}
    IN  IF hits = {} THEN None
        ELSE Some(PathJoin(Locations[CHOOSE i \in hits : \A j \in hits : i <= j], target))

\* process_dir: the entries of the regular files below path, named under e
RECURSIVE ProcessDir(_, _)
ProcessDir(path, e) ==
    LET entries == ReadDir(path)
        One(p) ==
            LET relpath == SubSeq(p, Len(path) + 2, Len(p))
            IN  IF p \in RegularFiles THEN <<FileEntry(p, PathJoin(e, relpath))>>
                ELSE IF p \in Directories THEN ProcessDir(p, PathJoin(e, relpath))
                ELSE <<>>
        RECURSIVE All(_)
        All(k) == IF k > Len(entries) THEN <<>> ELSE One(entries[k]) \o All(k + 1)
    IN  All(1)

\* the body of process_file_items' loop without the look at the item's last
\* character
ProcessFileItemNoSlash(item, s) ==
    LET found == FindPath(item)
        path  == IF found = None THEN None ELSE Canonicalize(found[1])
        filename == FileName(item)
    IN  IF path = None THEN None
        ELSE IF filename = None THEN Some(<<>>)
        ELSE IF path[1] \in RegularFiles
             THEN Some(<<FileEntry(path[1], PathJoin(s, filename[1]))>>)
        ELSE IF path[1] \in Directories
             THEN Some(ProcessDir(path[1], PathJoin(s, filename[1])))
        ELSE Some(<<>>)

\* the body of process_file_items' loop for one item: Some(entries) or None
\* when find_path or canonicalize fails
ProcessFileItem(item, s) ==
    LET found == FindPath(item)
        path  == IF found = None THEN None ELSE Canonicalize(found[1])
        filename == FileName(item)
    IN  IF path = None THEN None
        ELSE IF filename = None THEN Some(<<>>)
        ELSE IF path[1] \in RegularFiles
             THEN Some(<<FileEntry(path[1], PathJoin(s, filename[1]))>>)
        ELSE IF path[1] \in Directories
             THEN Some(ProcessDir(path[1],
                                  IF ~EndsWith(item, Slash)
                                  THEN PathJoin(s, filename[1]) ELSE s))
        ELSE Some(<<>>)

\* process_file_items: [ok |-> TRUE, entries] or [ok |-> FALSE, err]
RECURSIVE ProcessFileItems(_, _)
ProcessFileItems(items, s) ==
    IF items = <<>> THEN [ok |-> TRUE, entries |-> <<>>, err |-> None]
    ELSE LET one == ProcessFileItem(Head(items), s)
         IN  IF one = None
             THEN [ok |-> FALSE, entries |-> <<>>,
                   err |-> Some(Err("Find", Head(items)))]
             ELSE LET rest == ProcessFileItems(Tail(items), s)
                  IN  IF rest.ok
                      THEN [ok |-> TRUE, entries |-> one[1] \o rest.entries, err |-> None]
                      ELSE rest

\* ------------------------------------------------------------------------
\* The ELF dependency resolver's pure parts (ldcache.rs)
\* ------------------------------------------------------------------------

\* BTreeMap::insert on a map held as a function
MapInsert(m, k, v) == [x \in DOMAIN m \cup {k} |-> IF x = k THEN v ELSE m[x]]

EmptyMap == [x \in {} |-> None]

\* the FileEntry find_additional_versions stores for the alias dep of elf
AliasEntry(elf, dep) ==
    FileEntry(elf.location,
              IF Parent(elf.name) # None THEN PathJoin(Parent(elf.name)[1], dep)
              ELSE dep)

\* whether the sibling named dep of elf's file is one of its names
IsAliasOf(elf, parent, dep) ==
    Canonicalize(PathJoin(parent, dep)) = Some(elf.location)

\* find_additional_versions: libs_out with every dot-prefix of elf's file
\* name that canonicalizes to elf.location
FindAdditionalVersions(elf, libs_out) ==
    LET file   == FileName(elf.location)
        parent == Parent(elf.location)
    IN  IF file = None \/ parent = None THEN libs_out
        ELSE LET chunks == Split(file[1], Dot)
                 Dep(i) == JoinWith(SubSeq(chunks, 1, i), Dot)
                 RECURSIVE Loop(_, _)
                 Loop(i, m) ==
                     IF i > Len(chunks) THEN m
                     ELSE Loop(i + 1,
                               IF IsAliasOf(elf, parent[1], Dep(i))
                               THEN MapInsert(m, Dep(i), AliasEntry(elf, Dep(i)))
                               ELSE m)
             IN  Loop(1, libs_out)

\* the name a seed contributes to own_libs
SeedOwnLibs(elf) ==
    IF FileName(elf.name) # None THEN {FileName(elf.name)[1]} ELSE {}

\* line 142 without its look into the baseline cache
NeedsResolutionNoBase(d, base, own) == d \notin own

\* line 142: whether a needed soname is looked at at all
NeedsResolution(d, base, own) == d \notin base /\ d \notin own

\* line 143 never taken
NeverAlias(d, extra) == FALSE

\* line 143: whether the alias table answers for d
HasAlias(d, extra) == d \in DOMAIN extra

\* lines 126 and 151 without their look into queued
AlwaysNewPath(p, q) == TRUE

\* line 151: whether a build cache hit is emitted and enqueued
IsNewPath(p, q) == p \notin q

\* a build cache hit emitted under the full name of its file
DepEntryFullName(d, p) == FileEntry(p, PathJoin(LIB, FileName(p)[1]))

\* lines 153-159: the entry emitted for a build cache hit
DepEntry(d, p) == FileEntry(p, PathJoin(LIB, d))

\* ------------------------------------------------------------------------
\* insert_files (generate.rs)
\* ------------------------------------------------------------------------

\* an entry of the zip archive; add_directory stores the name with a
\* trailing '/', start_file stores it as given
ZipDir(name) == [name |-> name \o <<Slash>>, dir |-> TRUE, location |-> None]

ZipFile(name, location) == [name |-> name, dir |-> FALSE, location |-> Some(location)]

\* a file the generator writes itself (run.sh, launch.sh, bundle.ini)
ZipOwn(name) == [name |-> name, dir |-> FALSE, location |-> None]

\* lines 136-142 without the comparison of locations: the last entry of a
\* name wins
RECURSIVE BuildEntryMapLast(_, _)
BuildEntryMapLast(files, m) ==
    IF files = <<>> THEN [ok |-> TRUE, map |-> m, name |-> None]
    ELSE BuildEntryMapLast(Tail(files),
                           MapInsert(m, Head(files).name, Head(files).location))

\* lines 136-142: [ok, map] or [ok |-> FALSE, name: the duplicated name]
RECURSIVE BuildEntryMap(_, _)
BuildEntryMap(files, m) ==
    IF files = <<>> THEN [ok |-> TRUE, map |-> m, name |-> None]
    ELSE LET file == Head(files)
         IN  IF file.name \in DOMAIN m /\ m[file.name] # file.location
             THEN [ok |-> FALSE, map |-> m, name |-> Some(file.name)]
             ELSE BuildEntryMap(Tail(files), MapInsert(m, file.name, file.location))

\* the iteration order of a BTreeMap<String, _>: its keys in String order
RECURSIVE SortedKeys(_)
SortedKeys(S) ==
    IF S = {} THEN <<>>
    ELSE LET least == CHOOSE x \in S : \A y \in S \ {x} : StrLess(x, y)
         IN  <<least>> \o SortedKeys(S \ {least})

\* lines 147-159: the directories a name lies in, outermost first, the
\* empty root included
DirComps(path) ==
    LET comps == Reverse(Ancestors(path))
    IN  SubSeq(comps, 1, Len(comps) - 1)

\* lines 162-170 without the comparison with the name written before
NewDirsAll(last_path, name) ==
    LET new_comps == DirComps(name)
    IN  [i \in 1..(Len(new_comps) - 1) |-> ZipDir(new_comps[i + 1])]

\* lines 162-170: the directories added before the file `name`, given the
\* name written before it
NewDirs(last_path, name) ==
    LET old_comps == IF last_path = None THEN <<>> ELSE DirComps(last_path[1])
        new_comps == DirComps(name)
        RECURSIVE Loop(_)
        Loop(i) ==
            IF i > Len(new_comps) THEN <<>>
            ELSE (IF i > Len(old_comps) \/ old_comps[i] # new_comps[i]
                  THEN <<ZipDir(new_comps[i])>> ELSE <<>>) \o Loop(i + 1)
    IN  Loop(2)

\* lines 144-184: the entries written for the map, in order
WriteEntries(m) ==
    LET keys == SortedKeys(DOMAIN m)
        RECURSIVE Loop(_, _)
        Loop(i, last_path) ==
            IF i > Len(keys) THEN <<>>
            ELSE NewDirs(last_path, keys[i])
                 \o <<ZipFile(keys[i], m[keys[i]])>>
                 \o Loop(i + 1, Some(keys[i]))
    IN  Loop(1, None)

\* insert_files writing its list as it comes, without the map of names
InsertFilesNoDedup(zf, files) ==
    [ok |-> TRUE,
     zf |-> zf \o [i \in 1..Len(files) |-> ZipFile(files[i].name, files[i].location)],
     err |-> None]

\* insert_files: [ok, zf: the archive afterwards, err]; the reads of the
\* files' metadata and bytes succeed (every location was canonicalized by the
\* caller) and so do the writes to the archive
InsertFiles(zf, files) ==
    LET em == BuildEntryMap(files, EmptyMap)
    IN  IF ~em.ok
        THEN [ok |-> FALSE, zf |-> zf,
              err |-> Some(Err("DuplicateZipFileEntry", em.name[1]))]
        ELSE [ok |-> TRUE, zf |-> zf \o WriteEntries(em.map), err |-> None]

\* ------------------------------------------------------------------------
\* BundleSpec::check (config.rs)
\* ------------------------------------------------------------------------

UnwrapOrDefault(opt, default) == IF opt = None THEN default ELSE opt[1]

\* check_store_bundle without its match on the bundle type
CheckStoreBundleNoKind(spec) ==
    LET tags == UnwrapOrDefault(spec.launcher_tags, <<>>)
    IN  IF spec.homebrew_id # None THEN Some("ConflictingOrigins")
        ELSE IF tags = <<>> /\ spec.launcher_exec # None THEN Some("NoLauncherTags")
        ELSE IF tags # <<>> /\ spec.launcher_exec = None THEN Some("NoLauncherExec")
        ELSE None

\* check_store_bundle without its comparisons of launcher_exec and launcher_tags
CheckStoreBundleNoPairing(spec) ==
    IF spec.homebrew_id # None THEN Some("ConflictingOrigins")
    ELSE IF spec.bundle_type \in {"Game", "Application"} /\ spec.exec = None
         THEN Some("NoExec")
    ELSE IF spec.bundle_type = "LauncherOnly" /\ spec.launcher_exec = None
         THEN Some("NoLauncherExec")
    ELSE IF spec.bundle_type = "LauncherOnly" /\ spec.exec # None
         THEN Some("UselessExec")
    ELSE None

\* check_store_bundle: None, or Some(the BundleSpecError)
CheckStoreBundle(spec) ==
    LET tags == UnwrapOrDefault(spec.launcher_tags, <<>>)
    IN  IF spec.homebrew_id # None THEN Some("ConflictingOrigins")
        ELSE IF tags = <<>> /\ spec.launcher_exec # None THEN Some("NoLauncherTags")
        ELSE IF tags # <<>> /\ spec.launcher_exec = None THEN Some("NoLauncherExec")
        ELSE IF spec.bundle_type \in {"Game", "Application"} /\ spec.exec = None
             THEN Some("NoExec")
        ELSE IF spec.bundle_type = "LauncherOnly" /\ spec.launcher_exec = None
             THEN Some("NoLauncherExec")
        ELSE IF spec.bundle_type = "LauncherOnly" /\ spec.exec # None
             THEN Some("UselessExec")
        ELSE IF spec.launcher_exec # None /\ tags = <<>> THEN Some("NoLauncherTags")
        ELSE None

\* check_homebrew_bundle accepting everything
CheckHomebrewBundleOff(spec) == None

\* check_homebrew_bundle: None, or Some(the BundleSpecError)
CheckHomebrewBundle(spec) ==
    LET tags == UnwrapOrDefault(spec.launcher_tags, <<>>)
    IN  IF tags # <<>> \/ spec.launcher_exec # None THEN Some("NoHomebrewLaunchers")
        ELSE IF spec.bundle_type \in {"Game", "Application"} /\ spec.exec = None
             THEN Some("NoExec")
        ELSE IF spec.bundle_type = "LauncherOnly" THEN Some("NoHomebrewLaunchers")
        ELSE IF UnwrapOrDefault(spec.background, FALSE)
             THEN Some("NoHomebrewBackgroundBundles")
        ELSE None

\* BundleSpec::check accepting everything
BundleSpecCheckOff(spec) == None

\* BundleSpec::check: None, or Some(the BundleSpecError)
BundleSpecCheck(spec) ==
    IF spec.store_id # None THEN CheckStoreBundle(spec)
    ELSE IF spec.homebrew_id # None THEN CheckHomebrewBundle(spec)
    ELSE Some("NoOriginId")

\* ------------------------------------------------------------------------
\* make_bundle's decisions (generate.rs)
\* ------------------------------------------------------------------------

\* lines 399-412 without the look at launcher
WritesRunShAlways(c) == c.exec # None

\* lines 399-412: whether run.sh is written
WritesRunSh(c) == c.exec # None /\ c.launcher = None

\* lines 399-412: the manifest's Exec
ProgOf(c) ==
    IF c.exec = None THEN None
    ELSE IF c.launcher # None THEN c.exec
    ELSE Some(RUN_SH)

\* lines 423-429: the field a community bundle may not carry, if any
HomebrewInvalidField(c) ==
    IF c.launcher_tags # None THEN Some("LauncherTags")
    ELSE IF c.launcher_exec # None THEN Some("LauncherExec")
    ELSE IF c.background # None THEN Some("Background")
    ELSE None

\* lines 440-449: the field a store bundle lacks, if any
StoreMissingField(c) ==
    IF c.launcher_exec # None /\ c.launcher_tags = None THEN Some("LauncherTags")
    ELSE IF c.launcher_exec = None /\ c.launcher_tags # None THEN Some("LauncherExec")
    ELSE None

\* shell_words::split on the exec strings of the model: the words between
\* blanks; the model's strings hold no blanks and no quotes, so a string is
\* one word, and the empty string is no word
ShellWords(cmd) == IF cmd = <<>> THEN <<>> ELSE <<cmd>>

\* ------------------------------------------------------------------------
\* State
\* ------------------------------------------------------------------------

VARIABLES
    cfg,            \* the BundleSpec read from the specification file
    base_deps,      \* the baseline ld.so.cache: Some(its sonames), None if unreadable
    pc,             \* the step generate has reached
    result,         \* None while running and after success, Some(error) after a failure
    cmds,           \* the commands run so far, in order
    log_file,       \* whether <stem>.log was created
    mods,           \* the required modules not run yet
    executables_on_disk, libraries_on_disk, resources_on_disk, extra_elf_on_disk,
    elves,          \* resolve_deps: the seeds not prepared yet
    work, queued, own_libs, own_extra_libs, res,
    item,           \* resolve_deps: Some(the file whose DT_NEEDED list is being read)
    ndeps,          \* how many DT_NEEDED entries were read so far (in SpecLoop: of the
                    \* file being read)
    host_needs,     \* the sonames the DT_NEEDED lists of the host's files name
    needed,         \* every DT_NEEDED soname read from a scanned file so far
    scanned,        \* the files parsed so far, in order
    elf_deps,       \* resolve_deps: what the last find_elf_deps call returned
    files,          \* the entry list of the insert_files call of SpecInsert
    zf,             \* the archive: None before File::create, Some(entries) after
    finished,       \* whether ZipWriter::finish was called
    manifest        \* Some(the BundleConfig written to the archive)

resolver == <<elves, work, queued, own_libs, own_extra_libs, res, item, ndeps,
              needed, scanned, elf_deps>>

collected == <<executables_on_disk, libraries_on_disk, resources_on_disk,
               extra_elf_on_disk>>

archive == <<zf, finished, manifest>>

vars == <<cfg, base_deps, host_needs, files, pc, result, cmds, log_file, mods, collected, resolver,
          archive>>

\* an early return with an error
Fail(e) == pc' = "failed" /\ result' = Some(e)

Goto(l) == pc' = l /\ UNCHANGED result

\* ------------------------------------------------------------------------
\* generate, up to make_bundle
\* ------------------------------------------------------------------------

\* generate, lines 472-484: the working directory, the specification's
\* directory, BundleSpec::load
Load ==
    /\ pc = "load"
    /\ \E e \in {"ok", "EnvIO", "IO", "NoParent", "BundleSpec"} :
           IF e = "ok" THEN Goto("check") ELSE Fail(Err(e, <<>>))
    /\ UNCHANGED <<cfg, base_deps, host_needs, files, cmds, log_file, mods, collected, resolver, archive>>

\* generate, line 487
Check ==
    /\ pc = "check"
    /\ IF BundleSpecCheck(cfg) = None THEN Goto("log")
       ELSE Fail(BundleSpecErr(BundleSpecCheck(cfg)[1]))
    /\ UNCHANGED <<cfg, base_deps, host_needs, files, cmds, log_file, mods, collected, resolver, archive>>

\* ------------------------------------------------------------------------
\* build_phase: the commands
\* ------------------------------------------------------------------------

\* what run_command can return: Ok, or the error of a failed spawn, of
\* output that is not UTF-8, of a log write, of a non-zero exit status
CommandOutcomes == {"ok", "IO", "Utf8", "Build"}

\* run_command whose error is recorded while build_phase goes on
RunCommandGoesOn(prog, next) ==
    /\ cmds' = Append(cmds, prog)
    /\ pc' = next
    /\ \E out \in CommandOutcomes :
           IF out = "ok" THEN UNCHANGED result ELSE result' = Some(Err(out, prog))

\* run_command: the command is run, then its outcome decides
RunCommand(prog, next) ==
    /\ cmds' = Append(cmds, prog)
    /\ \E out \in CommandOutcomes :
           IF out = "ok" THEN Goto(next) ELSE Fail(Err(out, prog))

\* lines 268-270
CreateLog ==
    /\ pc = "log"
    /\ \E ok \in BOOLEAN :
           IF ok THEN log_file' = TRUE /\ Goto("packages")
           ELSE UNCHANGED log_file /\ Fail(Err("IO", <<>>))
    /\ UNCHANGED <<cfg, base_deps, host_needs, files, cmds, mods, collected, resolver, archive>>

\* lines 272-281
InstallPackages ==
    /\ pc = "packages"
    /\ IF cfg.build.required_packages # None
       THEN RunCommand(<<"a", "p", "t", "-", "g", "e", "t">>, "modules")
       ELSE Goto("modules") /\ UNCHANGED cmds
    /\ mods' = UnwrapOrDefault(cfg.build.required_modules, <<>>)
    /\ UNCHANGED <<cfg, base_deps, host_needs, files, log_file, collected, resolver, archive>>

\* lines 284-289: one required module
RunModule ==
    /\ pc = "modules"
    /\ mods # <<>>
    /\ IF FindPath(Head(mods)) = None
       THEN Fail(Err("Find", Head(mods))) /\ UNCHANGED cmds
       ELSE RunCommand(FindPath(Head(mods))[1], "modules")
    /\ mods' = Tail(mods)
    /\ UNCHANGED <<cfg, base_deps, host_needs, files, log_file, collected, resolver, archive>>

\* line 291, and line 283 when there are no required modules
Ldconfig ==
    /\ pc = "modules"
    /\ mods = <<>>
    /\ IF cfg.build.required_modules # None
       THEN RunCommand(<<"l", "d", "c", "o", "n", "f", "i", "g">>, "build")
       ELSE Goto("build") /\ UNCHANGED cmds
    /\ UNCHANGED <<cfg, base_deps, host_needs, files, log_file, mods, collected, resolver, archive>>

\* lines 295-298
BuildCommand ==
    /\ pc = "build"
    /\ IF cfg.build.build_command = None THEN Goto("collect") /\ UNCHANGED cmds
       ELSE IF FindPath(cfg.build.build_command[1]) = None
       THEN Fail(Err("Find", cfg.build.build_command[1])) /\ UNCHANGED cmds
       ELSE RunCommand(FindPath(cfg.build.build_command[1])[1], "collect")
    /\ UNCHANGED <<cfg, base_deps, host_needs, files, log_file, mods, collected, resolver, archive>>

\* ------------------------------------------------------------------------
\* build_phase: collection
\* ------------------------------------------------------------------------

\* lines 324-329: the seeds, in the order they are handed to resolve_deps
Elves(exe, extra, lib) == exe \o extra \o lib

\* lines 300-329
Collect ==
    /\ pc = "collect"
    /\ LET exe   == ProcessFileItems(cfg.build.executables, BIN)
           lib   == ProcessFileItems(cfg.build.libraries, LIB)
           rsrc  == ProcessFileItems(cfg.build.resources, RESDIR)
           extra == ProcessFileItems(cfg.build.extra_elf_files, UNUSED)
           bad   == IF ~exe.ok THEN exe ELSE IF ~lib.ok THEN lib
                    ELSE IF ~rsrc.ok THEN rsrc ELSE extra
       IN  IF bad.ok
           THEN /\ executables_on_disk' = exe.entries
                /\ libraries_on_disk' = lib.entries
                /\ resources_on_disk' = rsrc.entries
                /\ extra_elf_on_disk' = extra.entries
                /\ elves' = Elves(exe.entries, extra.entries, lib.entries)
                /\ Goto("resolve")
           ELSE /\ UNCHANGED <<collected, elves>>
                /\ Fail(bad.err[1])
    /\ UNCHANGED <<cfg, base_deps, host_needs, files, cmds, log_file, mods, work, queued, own_libs,
                   own_extra_libs, res, item, ndeps, needed, scanned, elf_deps, archive>>

\* ------------------------------------------------------------------------
\* resolve_deps (ldcache.rs)
\* ------------------------------------------------------------------------

\* what find_elf_deps can return before the DT_NEEDED list is read: an ELF
\* image, Err(NotElf), or another error (fs::read, goblin)
ParseOutcomes == {"elf", "NotElf", "Io", "Elf"}

\* resolve_deps entered with the bundle file already created
ResolveStartCreating ==
    /\ pc = "resolve"
    /\ IF base_deps = None THEN Fail(Err("Ld", <<>>)) ELSE Goto("seed")
    /\ work' = <<>>
    /\ queued' = {}
    /\ own_libs' = {}
    /\ own_extra_libs' = EmptyMap
    /\ res' = <<>>
    /\ zf' = Some(<<>>)
    /\ UNCHANGED <<cfg, base_deps, host_needs, files, cmds, log_file, mods, collected, elves, item,
                   ndeps, needed, scanned, elf_deps, finished, manifest>>

\* lines 113-122: the two caches are loaded, the state is empty
ResolveStart ==
    /\ pc = "resolve"
    /\ IF base_deps = None THEN Fail(Err("Ld", <<>>)) ELSE Goto("seed")
    /\ work' = <<>>
    /\ queued' = {}
    /\ own_libs' = {}
    /\ own_extra_libs' = EmptyMap
    /\ res' = <<>>
    /\ UNCHANGED <<cfg, base_deps, host_needs, files, cmds, log_file, mods, collected, elves, item,
                   ndeps, needed, scanned, elf_deps, archive>>

\* lines 124-134: one seed
SeedStep ==
    /\ pc = "seed"
    /\ elves # <<>>
    /\ LET elf == Head(elves)
           pb  == elf.location
       IN  IF IsNewPath(pb, queued)
           THEN /\ own_libs' = own_libs \cup SeedOwnLibs(elf)
                /\ own_extra_libs' = FindAdditionalVersions(elf, own_extra_libs)
                /\ queued' = queued \cup {pb}
                /\ work' = Append(work, pb)
           ELSE UNCHANGED <<own_libs, own_extra_libs, queued, work>>
    /\ elves' = Tail(elves)
    /\ Goto("seed")
    /\ UNCHANGED <<cfg, base_deps, host_needs, files, cmds, log_file, mods, collected, res, item,
                   ndeps, needed, scanned, elf_deps, archive>>

\* the end of the loop of lines 124-134
SeedsDone ==
    /\ pc = "seed"
    /\ elves = <<>>
    /\ Goto("pop")
    /\ UNCHANGED <<cfg, base_deps, host_needs, files, cmds, log_file, mods, collected, resolver, archive>>

\* lines 136-139 and 176-180 with a file that is not ELF treated as every
\* other error
PopStrict ==
    /\ pc = "pop"
    /\ work # <<>>
    /\ LET it == work[Len(work)]
       IN  /\ work' = SubSeq(work, 1, Len(work) - 1)
           /\ scanned' = Append(scanned, it)
           /\ \E out \in ParseOutcomes :
                  /\ elf_deps' = out
                  /\ CASE out = "elf" -> item' = Some(it) /\ Goto("deps")
                       [] OTHER       -> item' = None /\ Fail(Err("Ld", it))
    /\ UNCHANGED ndeps
    /\ UNCHANGED <<cfg, base_deps, host_needs, files, cmds, log_file, mods, collected, elves, queued,
                   own_libs, own_extra_libs, res, needed, archive>>

\* lines 136-139 and 176-180: the top of the work list is popped and parsed;
\* n is the count of DT_NEEDED entries read that the loop of line 140 starts
\* from
PopAt(n) ==
    /\ pc = "pop"
    /\ work # <<>>
    /\ LET it == work[Len(work)]
       IN  /\ work' = SubSeq(work, 1, Len(work) - 1)
           /\ scanned' = Append(scanned, it)
           /\ \E out \in ParseOutcomes :
                  /\ elf_deps' = out
                  /\ CASE out = "elf"    -> item' = Some(it) /\ Goto("deps")
                       [] out = "NotElf" -> item' = None /\ Goto("pop")
                       [] OTHER          -> item' = None /\ Fail(Err("Ld", it))
    /\ ndeps' = n
    /\ UNCHANGED <<cfg, base_deps, host_needs, files, cmds, log_file, mods, collected, elves, queued,
                   own_libs, own_extra_libs, res, needed, archive>>

\* the DT_NEEDED entries are counted over the whole run
Pop == PopAt(ndeps)

\* lines 141-173: the body of the loop of line 140 for the DT_NEEDED entry d
DepRead(d) ==
    /\ pc = "deps"
    /\ ndeps < MaxNeeded
    /\ needed' = needed \cup {d}
    /\ ndeps' = ndeps + 1
    /\ IF ~NeedsResolution(d, base_deps[1], own_libs)
       THEN Goto("deps") /\ UNCHANGED <<res, own_libs, queued, work>>
       ELSE IF HasAlias(d, own_extra_libs)
       THEN /\ res' = Append(res, own_extra_libs[d])
            /\ own_libs' = own_libs \cup {d}
            /\ Goto("deps")
            /\ UNCHANGED <<queued, work>>
       ELSE IF GetPath(d) = None
       THEN /\ Fail(Err("MissingDependency", d))
            /\ UNCHANGED <<res, own_libs, queued, work>>
       ELSE LET p == GetPath(d)[1]
            IN  /\ IF IsNewPath(p, queued)
                   THEN /\ queued' = queued \cup {p}
                        /\ res' = Append(res, DepEntry(d, p))
                        /\ work' = Append(work, p)
                   ELSE UNCHANGED <<queued, res, work>>
                /\ Goto("deps")
                /\ UNCHANGED own_libs
    /\ UNCHANGED <<cfg, base_deps, host_needs, files, cmds, log_file, mods, collected, elves,
                   own_extra_libs, item, scanned, elf_deps, archive>>

\* lines 140-174: the next DT_NEEDED entry of the file being read, whatever
\* it names
DepStep == \E d \in host_needs : DepRead(d)

\* the end of the loop of line 140
DepsDone ==
    /\ pc = "deps"
    /\ item' = None
    /\ Goto("pop")
    /\ UNCHANGED <<cfg, base_deps, host_needs, files, cmds, log_file, mods, collected, elves, work,
                   queued, own_libs, own_extra_libs, res, ndeps, needed, scanned, elf_deps,
                   archive>>

\* line 184: the work list is empty, Ok(res)
ResolveReturn ==
    /\ pc = "pop"
    /\ work = <<>>
    /\ Goto("version")
    /\ elf_deps' = "none"
    /\ UNCHANGED <<cfg, base_deps, host_needs, files, cmds, log_file, mods, collected, elves, work,
                   queued, own_libs, own_extra_libs, res, item, ndeps, needed, scanned,
                   archive>>

\* ------------------------------------------------------------------------
\* build_phase: the archive
\* ------------------------------------------------------------------------

\* lines 343-350: what is handed to insert_files
BuildSet(exe, lib, rsrc, deps) == exe \o lib \o rsrc \o deps

\* lines 338-351: the version file is found and read, the bundle file is
\* created, the build set is inserted
WriteBuildSet ==
    /\ pc = "version"
    /\ IF FindPath(cfg.build.version_file) = None
       THEN Fail(Err("Find", cfg.build.version_file)) /\ UNCHANGED zf
       ELSE \E ok \in BOOLEAN :
               IF ~ok THEN UNCHANGED zf /\ Fail(Err("IO", cfg.build.version_file))
               ELSE LET r == InsertFiles(<<>>, BuildSet(executables_on_disk,
                                                        libraries_on_disk,
                                                        resources_on_disk, res))
                    IN  /\ zf' = Some(r.zf)
                        /\ IF r.ok THEN Goto("bundle") ELSE Fail(r.err[1])
    /\ UNCHANGED <<cfg, base_deps, host_needs, files, cmds, log_file, mods, collected,
                   resolver, finished, manifest>>

\* ------------------------------------------------------------------------
\* make_bundle after build_phase
\* ------------------------------------------------------------------------

\* the archive, the manifest and the error, if any, after a step of make_bundle
Step(z, m, e) == [zf |-> z, manifest |-> m, err |-> e]

\* make_launcher_sh: the entry is started, then the command is split
MakeLauncherSh(z, name, startup_command) ==
    Step(Append(z, ZipOwn(name)), None,
         IF ShellWords(startup_command) = <<>>
         THEN Some(Err("BadCommand", startup_command)) ELSE None)

\* lines 399-412
RunShStep(c, z) ==
    IF WritesRunSh(c) THEN MakeLauncherSh(z, RUN_SH, c.exec[1])
    ELSE Step(z, None, None)

\* BundleConfig's builder, as far as make_bundle sets it
Manifest(c, launcher_exec) ==
    [ homebrew |-> c.homebrew_id # None,
      exec |-> ProgOf(c),
      requires_launcher |-> c.launcher,
      background |-> IF c.homebrew_id # None THEN None ELSE c.background,
      launcher_exec |-> launcher_exec,
      launcher_tags |-> IF launcher_exec = None THEN None ELSE c.launcher_tags ]

\* to_archive: the manifest is written as one entry
ToArchive(z, m) == Step(Append(z, ZipOwn(BUNDLE_INI)), Some(m), None)

\* lines 414-453
ManifestStep(c, z) ==
    IF c.homebrew_id # None
    THEN IF HomebrewInvalidField(c) # None
         THEN Step(z, None, Some(FieldErr("InvalidField", HomebrewInvalidField(c)[1])))
         ELSE ToArchive(z, Manifest(c, None))
    ELSE IF c.store_id # None
    THEN IF StoreMissingField(c) # None
         THEN Step(z, None, Some(FieldErr("MissingField", StoreMissingField(c)[1])))
         ELSE IF c.launcher_exec # None
         THEN LET l == MakeLauncherSh(z, LAUNCH_SH, c.launcher_exec[1])
              IN  IF l.err # None THEN l
                  ELSE ToArchive(l.zf, Manifest(c, Some(LAUNCH_SH)))
         ELSE ToArchive(z, Manifest(c, None))
    ELSE Step(z, None, Some(Err("BundleOriginUnknown", <<>>)))

\* lines 455-464
RunnerPatchStep(c, z, m) ==
    IF c.runner_patch = None THEN Step(z, m, None)
    ELSE LET location == Canonicalize(PathJoin(WorkDir, c.runner_patch[1]))
         IN  IF location = None THEN Step(z, m, Some(Err("IO", c.runner_patch[1])))
             ELSE LET r == InsertFiles(z, <<FileEntry(location[1], RUNNER_PATCH)>>)
                  IN  Step(r.zf, m, r.err)

\* lines 399-464 in sequence, stopping at the first error
MakeBundleSteps(c, z) ==
    LET w == RunShStep(c, z)
    IN  IF w.err # None THEN w
        ELSE LET m == ManifestStep(c, w.zf)
             IN  IF m.err # None THEN m
                 ELSE RunnerPatchStep(c, m.zf, m.manifest)

\* make_bundle, lines 399-468; ZipWriter::finish may fail
MakeBundle ==
    /\ pc = "bundle"
    /\ LET r == MakeBundleSteps(cfg, zf[1])
       IN  /\ zf' = Some(r.zf)
           /\ manifest' = r.manifest
           /\ IF r.err # None THEN Fail(r.err[1]) /\ UNCHANGED finished
              ELSE \E ok \in BOOLEAN :
                      IF ok THEN finished' = TRUE /\ Goto("done")
                      ELSE UNCHANGED finished /\ Fail(Err("Zip", <<>>))
    /\ UNCHANGED <<cfg, base_deps, host_needs, files, cmds, log_file, mods, collected,
                   resolver>>

Next ==
    \/ Load
    \/ Check
    \/ CreateLog
    \/ InstallPackages
    \/ RunModule
    \/ Ldconfig
    \/ BuildCommand
    \/ Collect
    \/ ResolveStart
    \/ SeedStep
    \/ SeedsDone
    \/ Pop
    \/ DepStep
    \/ DepsDone
    \/ ResolveReturn
    \/ WriteBuildSet
    \/ MakeBundle

\* ------------------------------------------------------------------------
\* Initial states: the specification file and the build host
\* ------------------------------------------------------------------------

EXEC_A == <<"b", "i", "n", "/", "a">>

TAGS == <<<<"t">>>>

BuildSpec(exe, lib, rsrc, extra, packages, modules, command, version) ==
    [ version_file |-> version, required_packages |-> packages,
      required_modules |-> modules, build_command |-> command,
      executables |-> exe, libraries |-> lib, resources |-> rsrc,
      extra_elf_files |-> extra ]

\* the items a list of the BuildSpec may name
Items == {N_a, N_f, N_h}

\* the four item lists filled by at most MaxItems picks (list, item)
Picks == UNION {[1..n -> (1..4) \X Items] : n \in 0..MaxItems}

ListOf(picks, k) ==
    LET RECURSIVE Sel(_)
        Sel(i) == IF i > Len(picks) THEN <<>>
                  ELSE (IF picks[i][1] = k THEN <<picks[i][2]>> ELSE <<>>) \o Sel(i + 1)
    IN  Sel(1)

RichBuilds ==
    { BuildSpec(ListOf(q, 1), ListOf(q, 2), ListOf(q, 3), ListOf(q, 4),
                None, None, None, N_v) : q \in Picks }

\* one executable, nothing else
PlainBuild == BuildSpec(<<N_a>>, <<>>, <<>>, <<>>, None, None, None, N_v)

\* the build steps varied over one executable
CommandBuilds ==
    { BuildSpec(<<N_a>>, <<>>, <<>>, <<>>, pk, md, bc, vf) :
        pk \in {None, Some(<<N_m>>)},
        md \in {None, Some(<<>>), Some(<<N_p>>), Some(<<N_p, N_z>>)},
        bc \in {None, Some(N_p), Some(N_z)},
        vf \in {N_v, N_z} }

\* a store bundle that gets run.sh, launch.sh, the manifest and a runner patch
FullStoreSpec(build) ==
    [ store_id |-> Some(<<"s">>), homebrew_id |-> None, bundle_type |-> "Game",
      exec |-> Some(EXEC_A), background |-> None, launcher |-> None,
      launcher_tags |-> Some(TAGS), launcher_exec |-> Some(EXEC_A),
      runner_patch |-> Some(N_p), build |-> build ]

\* every shape of the fields outside Build
BundleSpecs(build) ==
    [ store_id : {None, Some(<<"s">>)},
      homebrew_id : {None, Some(<<"h">>)},
      bundle_type : {"Game", "Application", "LauncherOnly"},
      exec : {None, Some(EXEC_A)},
      background : {None, Some(FALSE), Some(TRUE)},
      launcher : {None, Some(<<"l">>)},
      launcher_tags : {None, Some(<<>>), Some(TAGS)},
      launcher_exec : {None, Some(EXEC_A)},
      runner_patch : {None, Some(N_p)},
      build : {build} ]

\* nothing has run yet
InitIdle ==
    /\ result = None
    /\ cmds = <<>>
    /\ log_file = FALSE
    /\ mods = <<>>
    /\ executables_on_disk = <<>>
    /\ libraries_on_disk = <<>>
    /\ resources_on_disk = <<>>
    /\ extra_elf_on_disk = <<>>
    /\ elves = <<>>
    /\ work = <<>>
    /\ queued = {}
    /\ own_libs = {}
    /\ own_extra_libs = EmptyMap
    /\ res = <<>>
    /\ item = None
    /\ ndeps = 0
    /\ needed = {}
    /\ scanned = <<>>
    /\ elf_deps = "none"
    /\ finished = FALSE
    /\ manifest = None

\* the state generate starts in
InitRest ==
    /\ pc = "load"
    /\ files = <<>>
    /\ zf = None
    /\ InitIdle

\* any small build set on any host, under one specification
InitRich ==
    /\ cfg \in {FullStoreSpec(b) : b \in RichBuilds}
    /\ base_deps \in {Some(S) : S \in Baselines}
    /\ host_needs = Sonames
    /\ InitRest

\* any build steps around one executable; the baseline cache may be unreadable
InitCommands ==
    /\ cfg \in {FullStoreSpec(b) : b \in CommandBuilds}
    /\ base_deps \in {None, Some({N_h})}
    /\ host_needs = {N_h}
    /\ InitRest

\* any specification around one executable
InitSpecs ==
    /\ cfg \in BundleSpecs(PlainBuild)
    /\ base_deps = Some({N_h})
    /\ host_needs = {N_h}
    /\ InitRest

\* the items of the build sets of directories
DirItems == {N_a, N_aslash, N_d, N_dslash, N_dx, N_de}

DirPicks == UNION {[1..n -> (1..4) \X DirItems] : n \in 0..MaxItems}

DirBuilds ==
    { BuildSpec(ListOf(q, 1), ListOf(q, 2), ListOf(q, 3), ListOf(q, 4),
                None, None, None, N_v) : q \in DirPicks }

\* any small build set of files and directories, on a host whose files need
\* nothing
InitDirs ==
    /\ cfg \in {FullStoreSpec(b) : b \in DirBuilds}
    /\ base_deps = Some({})
    /\ host_needs = {}
    /\ InitRest

Init == InitRich \/ InitCommands

InitCollect == InitDirs \/ InitCommands

InitGen == InitSpecs \/ InitCommands

\* generate over build sets and hosts
Spec == Init /\ [][Next]_vars

\* generate over specifications and build steps
SpecGen == InitGen /\ [][Next]_vars

\* generate over build sets of files and directories, and build steps
SpecCollect == InitCollect /\ [][Next]_vars

\* ------------------------------------------------------------------------
\* insert_files on its own, over any entry list
\* ------------------------------------------------------------------------

D_x == <<"d", "/", "x">>

D_y == <<"d", "/", "y">>

D_e_x == <<"d", "/", "e", "/", "x">>

De_x == <<"d", ".", "e", "/", "x">>

D_ex == <<"d", "/", "e", ".", "x">>

\* archive names: in the root, in one directory, nested, and with a '.'
\* where another name has its '/'
EntryNames == {N_a, D_x, D_y, D_e_x, De_x, D_ex}

EntryLocations == {F_a, F_p}

Entries == {FileEntry(l, n) : l \in EntryLocations, n \in EntryNames}

EntryLists == UNION {[1..n -> Entries] : n \in 0..MaxEntries}

\* one call insert_files(&mut zf, &files)
InsertCall ==
    /\ pc = "insert"
    /\ LET r == InsertFiles(zf[1], files)
       IN  /\ zf' = Some(r.zf)
           /\ IF r.ok THEN Goto("inserted") ELSE Fail(r.err[1])
    /\ UNCHANGED <<cfg, base_deps, host_needs, files, cmds, log_file, mods, collected,
                   resolver, finished, manifest>>

\* an archive that is empty or holds run.sh, and any entry list
InitInsert ==
    /\ pc = "insert"
    /\ files \in EntryLists
    /\ zf \in {Some(<<>>), Some(<<ZipOwn(RUN_SH)>>)}
    /\ cfg = FullStoreSpec(PlainBuild)
    /\ base_deps = Some({})
    /\ host_needs = {}
    /\ InitIdle

NextInsert == InsertCall

SpecInsert == InitInsert /\ [][NextInsert]_vars

\* ------------------------------------------------------------------------
\* resolve_deps on its own, over hosts whose files have fixed DT_NEEDED lists
\* ------------------------------------------------------------------------

\* the DT_NEEDED lists of the files of the fullest host: /u/g.1 needs itself
\* by one soname and /u/h by another, /u/h needs /u/g.1, /w/a and /w/f.1 need
\* both
FullNeeds(p) ==
    IF p = F_a THEN <<N_g, N_m, N_f1>>
    ELSE IF p = F_f1 THEN <<N_h, N_g1, N_f>>
    ELSE IF p = F_g1 THEN <<N_g1, N_m, N_g>>
    ELSE IF p = F_h THEN <<N_g, N_h, N_f1>>
    ELSE <<>>

RECURSIVE Select(_, _)
Select(s, S) ==
    IF s = <<>> THEN <<>>
    ELSE (IF Head(s) \in S THEN <<Head(s)>> ELSE <<>>) \o Select(Tail(s), S)

\* the DT_NEEDED list of the file p on the host whose files name the sonames
\* of host_needs, cut to MaxNeeded entries
DtNeeded(p) ==
    LET all == Select(FullNeeds(p), host_needs)
    IN  SubSeq(all, 1, IF Len(all) < MaxNeeded THEN Len(all) ELSE MaxNeeded)

\* the hosts: every file needs nothing; g.1 and h need each other; every
\* name is needed by some file
NeedSets == {{}, {N_g1, N_m}, {N_g, N_g1, N_m}, {N_g, N_m, N_f1}, Sonames}

\* lines 136-139: the next file is popped, none of its entries is read yet
PopFile == PopAt(0)

\* line 140: the next entry of the DT_NEEDED list of the file being read
DepOfFile ==
    /\ pc = "deps"
    /\ ndeps < Len(DtNeeded(item[1]))
    /\ DepRead(DtNeeded(item[1])[ndeps + 1])

\* line 140: the DT_NEEDED list of the file being read is exhausted
DepsDoneFile ==
    /\ pc = "deps"
    /\ ndeps = Len(DtNeeded(item[1]))
    /\ DepsDone

\* lines 124-134 run over the seeds: the work list, queued, own_libs and
\* own_extra_libs the loop of line 136 starts from
RECURSIVE SeedLoop(_, _)
SeedLoop(seeds, st) ==
    IF seeds = <<>> THEN st
    ELSE LET elf == Head(seeds)
             pb  == elf.location
         IN  SeedLoop(Tail(seeds),
                      IF IsNewPath(pb, st.queued)
                      THEN [own_libs |-> st.own_libs \cup SeedOwnLibs(elf),
                            own_extra_libs |-> FindAdditionalVersions(elf, st.own_extra_libs),
                            queued |-> st.queued \cup {pb},
                            work |-> Append(st.work, pb)]
                      ELSE st)

\* resolve_deps at its loop of line 136: the log is created, no command was
\* asked for, the build set is collected, the seeds are prepared
InitLoop ==
    /\ cfg \in {FullStoreSpec(b) : b \in RichBuilds}
    /\ base_deps \in {Some(S) : S \in Baselines}
    /\ host_needs \in NeedSets
    /\ pc = "pop"
    /\ result = None
    /\ cmds = <<>>
    /\ log_file = TRUE
    /\ mods = <<>>
    /\ executables_on_disk = ProcessFileItems(cfg.build.executables, BIN).entries
    /\ libraries_on_disk = ProcessFileItems(cfg.build.libraries, LIB).entries
    /\ resources_on_disk = ProcessFileItems(cfg.build.resources, RESDIR).entries
    /\ extra_elf_on_disk = ProcessFileItems(cfg.build.extra_elf_files, UNUSED).entries
    /\ elves = <<>>
    /\ LET st == SeedLoop(Elves(executables_on_disk, extra_elf_on_disk, libraries_on_disk),
                          [own_libs |-> {}, own_extra_libs |-> EmptyMap,
                           queued |-> {}, work |-> <<>>])
       IN  /\ work = st.work
           /\ queued = st.queued
           /\ own_libs = st.own_libs
           /\ own_extra_libs = st.own_extra_libs
    /\ res = <<>>
    /\ item = None
    /\ ndeps = 0
    /\ needed = {}
    /\ scanned = <<>>
    /\ elf_deps = "none"
    /\ files = <<>>
    /\ zf = None
    /\ finished = FALSE
    /\ manifest = None

NextLoop ==
    \/ PopFile
    \/ DepOfFile
    \/ DepsDoneFile
    \/ ResolveReturn

\* the loop of resolve_deps runs on: a step is taken whenever one is possible
SpecLoop == InitLoop /\ [][NextLoop]_vars /\ WF_vars(NextLoop)

\* ------------------------------------------------------------------------
\* The vocabulary of the properties
\* ------------------------------------------------------------------------

\* the entries of the archive, none before the bundle file exists
ArchiveEntries == IF zf = None THEN {} ELSE Range(zf[1])

\* the sonames of the baseline cache, none when it could not be read
Baseline == IF base_deps = None THEN {} ELSE base_deps[1]

\* the seeds handed to resolve_deps
SeedEntries ==
    Range(executables_on_disk) \cup Range(extra_elf_on_disk)
        \cup Range(libraries_on_disk)

\* generate returned Ok(())
Succeeded == pc = "done"

\* whether an archive name lies under the directory dir
IsUnder(dir, name) == IsPrefixOf(dir \o <<Slash>>, name)

\* the alias entries resolve_deps can emit
AliasEntries == {own_extra_libs[k] : k \in DOMAIN own_extra_libs}

\* the entries resolve_deps emitted for build cache hits
CacheHits == {e \in Range(res) : e \notin AliasEntries}

\* the names find_additional_versions finds for the file p: its file name
\* and the dot-prefixes of it that are links to it
AliasNamesOf(p) ==
    DOMAIN FindAdditionalVersions(FileEntry(p, PathJoin(LIB, FileName(p)[1])), EmptyMap)

\* what build_phase hands to its insert_files call
BuildSetOnDisk ==
    BuildSet(executables_on_disk, libraries_on_disk, resources_on_disk, res)

\* ------------------------------------------------------------------------
\* Dependency resolution
\* ------------------------------------------------------------------------

\* C1 (closure): after a successful run every DT_NEEDED soname read from a
\* scanned file is in the baseline cache or is the basename of an entry of
\* the archive.
Closure ==
    Succeeded =>
        \A d \in needed :
            d \in Baseline \/ \E e \in ArchiveEntries : FileName(e.name) = Some(d)

\* C2 as the specification states it (alias shipping): after a successful
\* run, for every file F emitted for a build cache hit the archive holds an
\* entry lib/n with location F for F's file name and for every dot-prefix n
\* of it that is a link to F.
AliasShipping ==
    Succeeded =>
        \A e \in CacheHits : \A n \in AliasNamesOf(e.location) :
            ZipFile(PathJoin(LIB, n), e.location) \in ArchiveEntries

\* C2 as the code has it: a build cache hit ships one name. Every entry
\* emitted for a build cache hit is lib/d with the cache's path for a needed
\* soname d outside the baseline cache, no two such entries have the same
\* location, and after a successful run each of them is in the archive.
CacheHitShipsOneName ==
    /\ \A e \in CacheHits :
           \E d \in needed \ Baseline :
               d \in DOMAIN BuildCache /\ e = FileEntry(BuildCache[d], PathJoin(LIB, d))
    /\ \A e1, e2 \in CacheHits : e1.location = e2.location => e1 = e2
    /\ Succeeded => \A e \in CacheHits : ZipFile(e.name, e.location) \in ArchiveEntries

\* a successful run in which soname g was resolved through the build cache
\* to the file g.1, which has the two names g and g.1
CacheHitOnAliasedFile ==
    Succeeded /\ FileEntry(F_g1, PathJoin(LIB, N_g)) \in Range(res)

\* C3 as the specification states it (seed non-duplication): no entry that
\* resolve_deps outputs under lib/ has the location of an entry collected
\* from executables, libraries or resources.
SeedNonDuplication ==
    \A e \in Range(res) :
        IsUnder(LIB, e.name) =>
            e.location \notin
                {c.location : c \in Range(executables_on_disk)
                                      \cup Range(libraries_on_disk)
                                      \cup Range(resources_on_disk)}

\* C3 as the code has it: no entry emitted for a build cache hit has the
\* location of a seed (executables, extra_elf_files, libraries); an output
\* entry with a seed's location is an alias entry of own_extra_libs.
CacheHitsAvoidSeeds ==
    \A e \in CacheHits : e.location \notin {s.location : s \in SeedEntries}

\* a successful run in which a needed soname that is neither in the
\* baseline cache nor in own_libs nor an alias resolves through the build
\* cache to the file of a seed
SeedIsCachePath ==
    /\ Succeeded
    /\ \E s \in SeedEntries : \E d \in needed \ Baseline :
           /\ d \notin own_libs
           /\ d \notin DOMAIN own_extra_libs
           /\ d \in DOMAIN BuildCache
           /\ BuildCache[d] = s.location

MissingDependencyStops ==
    /\ [][\A d \in Sonames :
              (/\ DepRead(d)
               /\ d \notin Baseline
               /\ d \notin own_libs
               /\ d \notin DOMAIN own_extra_libs
               /\ d \notin DOMAIN BuildCache)
              => /\ pc' = "failed"
                 /\ result' = Some(Err("MissingDependency", d))
                 /\ res' = res
                 /\ zf' = None]_vars
    /\ []((result # None /\ result[1].kind = "MissingDependency")
              => (pc = "failed" /\ zf = None /\ ~finished))

\* a run that failed with MissingDependency for the soname f.1
MissingDependencyRaised ==
    pc = "failed" /\ result = Some(Err("MissingDependency", N_f1))

\* C9 (extra ELF files are not shipped): no entry of a finished archive has a
\* name under _unused/.
NoUnusedEntries ==
    finished => \A e \in ArchiveEntries : ~IsUnder(UNUSED, e.name)

\* ------------------------------------------------------------------------
\* insert_files
\* ------------------------------------------------------------------------

\* the names a list gives two different locations
ConflictNames(fs) ==
    {fs[i].name : i \in {k \in DOMAIN fs :
                            \E j \in DOMAIN fs : /\ fs[j].name = fs[k].name
                                                 /\ fs[j].location # fs[k].location}}

\* the non-empty proper directory prefixes of an archive name
DirPrefixes(n) == {SubSeq(n, 1, i - 1) : i \in {k \in 2..Len(n) : n[k] = Slash}}

\* C6 (insert_files deduplication): one call of insert_files on a list that
\* gives some name two locations fails with DuplicateZipFileEntry of such a
\* name and leaves the archive as it was; on any other list it succeeds, it
\* keeps what the archive held, and it writes for every name of the list
\* exactly one file entry, with the location the list gives the name.
InsertFilesDedup ==
    [][pc = "insert" =>
         IF ConflictNames(files) # {}
         THEN /\ pc' = "failed"
              /\ zf' = zf
              /\ \E n \in ConflictNames(files) :
                     result' = Some(Err("DuplicateZipFileEntry", n))
         ELSE /\ pc' = "inserted"
              /\ result' = None
              /\ SubSeq(zf'[1], 1, Len(zf[1])) = zf[1]
              /\ LET written == SubSeq(zf'[1], Len(zf[1]) + 1, Len(zf'[1]))
                     FilesAt(n) == {k \in DOMAIN written :
                                       ~written[k].dir /\ written[k].name = n}
                 IN  /\ \A f \in Range(files) :
                            /\ Cardinality(FilesAt(f.name)) = 1
                            /\ ZipFile(f.name, f.location) \in Range(written)
                     /\ \A k \in DOMAIN written :
                            ~written[k].dir =>
                                \E f \in Range(files) :
                                    written[k] = ZipFile(f.name, f.location)
      ]_vars

\* a failed call whose first and third entry give one name two locations,
\* with an entry of another name between them
ConflictAcrossAnEntry ==
    /\ pc = "failed"
    /\ Len(files) = 3
    /\ files[1].name = files[3].name
    /\ files[1].location # files[3].location
    /\ files[2].name # files[1].name
    /\ result = Some(Err("DuplicateZipFileEntry", files[1].name))

\* C7 (directory emission): after a successful call of insert_files every
\* non-empty proper directory prefix of every name of the list is in the
\* archive as a directory entry exactly once, before every file entry
\* beneath it, and the archive has no other directory entry, none for the
\* root.
DirectoryEmission ==
    pc = "inserted" =>
        LET w == zf[1]
            names == {f.name : f \in Range(files)}
            DirsAt(P) == {k \in DOMAIN w : w[k].dir /\ w[k].name = ZipDir(P).name}
        IN  /\ \A n \in names : \A P \in DirPrefixes(n) :
                   /\ Cardinality(DirsAt(P)) = 1
                   /\ \A k \in DirsAt(P) : \A j \in DOMAIN w :
                          (~w[j].dir /\ IsUnder(P, w[j].name)) => k < j
            /\ \A k \in DOMAIN w :
                   w[k].dir =>
                       \E n \in names : \E P \in DirPrefixes(n) :
                           w[k].name = ZipDir(P).name

\* a successful call on a list with a name in a directory, a name in a
\* directory nested in it and a name in the root
NestedSharedDirectories ==
    /\ pc = "inserted"
    /\ {D_e_x, D_y, N_a} \subseteq {f.name : f \in Range(files)}

\* ------------------------------------------------------------------------
\* Community bundles
\* ------------------------------------------------------------------------

\* HomebrewID together with LauncherTags, LauncherExec or Background=true
Restricted(c) ==
    /\ c.homebrew_id # None
    /\ (c.launcher_tags # None \/ c.launcher_exec # None \/ c.background = Some(TRUE))

\* HomebrewID together with a non-empty LauncherTags, LauncherExec or
\* Background=true
RestrictedNonEmpty(c) ==
    /\ c.homebrew_id # None
    /\ \/ (c.launcher_tags # None /\ c.launcher_tags[1] # <<>>)
       \/ c.launcher_exec # None
       \/ c.background = Some(TRUE)

\* generate returned an error about the fields of the specification
Rejected ==
    /\ result # None
    /\ \/ result[1].kind \in {"InvalidField", "MissingField", "BundleOriginUnknown"}
       \/ (result[1].kind = "BundleSpec" /\ result[1].why # "")

\* C10 as the specification states it (community restrictions): a
\* specification with HomebrewID and any of LauncherTags, LauncherExec or
\* Background=true never succeeds, and when generate rejects it, it does so
\* with InvalidField naming one of these fields.
CommunityInvalidField ==
    Restricted(cfg) =>
        /\ ~Succeeded
        /\ Rejected =>
               /\ result[1].kind = "InvalidField"
               /\ result[1].why \in {"LauncherTags", "LauncherExec", "Background"}

\* C10 as the code has it: a specification with HomebrewID and any of
\* LauncherTags, LauncherExec or Background=true never succeeds. With a
\* non-empty LauncherTags, a LauncherExec or Background=true it does not get
\* past BundleSpec::check: nothing is run, logged or archived, and the
\* rejection is a BundleSpecError, not InvalidField. InvalidField is returned
\* only when LauncherTags is present and empty, and then names LauncherTags,
\* after the build.
CommunityRejection ==
    Restricted(cfg) =>
        /\ ~Succeeded
        /\ RestrictedNonEmpty(cfg) =>
               /\ pc \in {"load", "check", "failed"}
               /\ cmds = <<>> /\ ~log_file /\ zf = None
               /\ Rejected =>
                      /\ result[1].kind = "BundleSpec"
                      /\ result[1].why \in {"ConflictingOrigins", "NoHomebrewLaunchers",
                                            "NoExec", "NoHomebrewBackgroundBundles"}
        /\ (result # None /\ result[1].kind = "InvalidField") =>
               /\ ~RestrictedNonEmpty(cfg)
               /\ result[1] = FieldErr("InvalidField", "LauncherTags")
               /\ log_file /\ zf # None

\* a community specification with launcher tags and nothing else amiss,
\* rejected by BundleSpec::check
CommunityRejectedByCheck ==
    /\ cfg.homebrew_id # None /\ cfg.store_id = None
    /\ cfg.launcher_tags = Some(TAGS)
    /\ cfg.launcher_exec = None /\ cfg.background = None
    /\ cfg.exec # None /\ cfg.bundle_type = "Game"
    /\ pc = "failed"
    /\ result = Some(BundleSpecErr("NoHomebrewLaunchers"))

\* ------------------------------------------------------------------------
\* BundleSpec::check and the manifest
\* ------------------------------------------------------------------------

\* generate did not get past BundleSpec::check and ran, logged and archived
\* nothing
StoppedBeforeBuild ==
    /\ pc \in {"load", "check", "failed"}
    /\ cmds = <<>> /\ ~log_file /\ zf = None

\* C11 (origin exclusivity): a specification with both StoreID and
\* HomebrewID, or with neither, does not get past BundleSpec::check: no
\* command is run and no archive is created, and the rejection is
\* ConflictingOrigins for both and NoOriginId for neither.
OriginExclusivity ==
    ((cfg.store_id # None) = (cfg.homebrew_id # None)) =>
        /\ StoppedBeforeBuild
        /\ Rejected =>
               result = Some(BundleSpecErr(IF cfg.store_id # None
                                           THEN "ConflictingOrigins" ELSE "NoOriginId"))

\* a specification with both origins, rejected
BothOriginsRejected ==
    /\ cfg.store_id # None /\ cfg.homebrew_id # None
    /\ pc = "failed"
    /\ result = Some(BundleSpecErr("ConflictingOrigins"))

\* Game and Application need exec; LauncherOnly forbids exec and needs
\* launcher_exec
KindExecRule(c) ==
    IF c.bundle_type \in {"Game", "Application"} THEN c.exec # None
    ELSE c.exec = None /\ c.launcher_exec # None

\* C12 (kind/exec rule): a specification that breaks the kind/exec rule,
\* store or community, does not get past BundleSpec::check, and its
\* rejection is a BundleSpecError.
KindExecChecked ==
    ~KindExecRule(cfg) =>
        /\ StoppedBeforeBuild
        /\ Rejected => result[1].kind = "BundleSpec"

\* a store LauncherOnly specification with its launcher fields and an exec,
\* rejected for the exec
UselessExecRejected ==
    /\ cfg.store_id # None /\ cfg.homebrew_id = None
    /\ cfg.bundle_type = "LauncherOnly"
    /\ cfg.exec # None
    /\ pc = "failed"
    /\ result = Some(BundleSpecErr("UselessExec"))

\* launcher_exec is present exactly when launcher_tags is present and
\* non-empty
PairingRule(c) ==
    (c.launcher_exec # None) = (c.launcher_tags # None /\ c.launcher_tags[1] # <<>>)

\* C13 (launcher pairing for store bundles): a store specification that
\* breaks the pairing rule does not get past BundleSpec::check; and
\* make_bundle returns MissingField only for a store specification whose
\* launcher_tags is present and empty, naming LauncherExec.
LauncherPairing ==
    (cfg.store_id # None /\ cfg.homebrew_id = None) =>
        /\ ~PairingRule(cfg) => StoppedBeforeBuild
        /\ (result # None /\ result[1].kind = "MissingField") =>
               /\ cfg.launcher_tags = Some(<<>>)
               /\ result = Some(FieldErr("MissingField", "LauncherExec"))

\* a checked store specification with launcher_exec and launcher tags whose
\* bundle was made, with launch.sh in the manifest
PairedLauncherBundled ==
    /\ cfg.store_id # None /\ cfg.homebrew_id = None
    /\ cfg.launcher_exec # None /\ cfg.launcher_tags = Some(TAGS)
    /\ Succeeded
    /\ manifest[1].launcher_exec = Some(LAUNCH_SH)

\* C14 (manifest exec rule): run.sh is in the archive only if exec is present
\* and launcher is absent; once the manifest is written, run.sh is in the
\* archive exactly then, and the manifest's Exec is run.sh in that case, the
\* exec string when exec and launcher are both present, and absent when exec
\* is absent.
ManifestExecRule ==
    /\ ZipOwn(RUN_SH) \in ArchiveEntries => (cfg.exec # None /\ cfg.launcher = None)
    /\ manifest # None =>
           /\ (cfg.exec # None /\ cfg.launcher = None) => ZipOwn(RUN_SH) \in ArchiveEntries
           /\ manifest[1].exec =
                  (IF cfg.exec = None THEN None
                   ELSE IF cfg.launcher = None THEN Some(RUN_SH)
                   ELSE cfg.exec)

\* a bundle made for a specification with exec and launcher: the manifest
\* keeps the exec string
ExecKeptForLauncher ==
    /\ Succeeded
    /\ cfg.exec # None /\ cfg.launcher # None
    /\ manifest[1].exec = cfg.exec
    /\ ZipOwn(RUN_SH) \notin ArchiveEntries

\* ------------------------------------------------------------------------
\* The order of build_phase
\* ------------------------------------------------------------------------

APT_GET == <<"a", "p", "t", "-", "g", "e", "t">>

LDCONFIG == <<"l", "d", "c", "o", "n", "f", "i", "g">>

\* the programs of the modules in list order, up to the first module that is
\* not found
RECURSIVE ModuleCommands(_)
ModuleCommands(ms) ==
    IF ms = <<>> \/ FindPath(Head(ms)) = None THEN <<>>
    ELSE <<FindPath(Head(ms))[1]>> \o ModuleCommands(Tail(ms))

AllFound(ms) == \A i \in 1..Len(ms) : FindPath(ms[i]) # None

\* every command the build b asks for, in the order of the claim, up to the
\* first program that is not found
PlannedCommands(b) ==
    (IF b.required_packages # None THEN <<APT_GET>> ELSE <<>>)
    \o (IF b.required_modules = None THEN <<>>
        ELSE ModuleCommands(b.required_modules[1])
             \o (IF AllFound(b.required_modules[1]) THEN <<LDCONFIG>> ELSE <<>>))
    \o (IF /\ b.required_modules # None => AllFound(b.required_modules[1])
           /\ b.build_command # None
           /\ FindPath(b.build_command[1]) # None
        THEN <<FindPath(b.build_command[1])[1]>> ELSE <<>>)

\* every program of b is found
PlanComplete(b) ==
    /\ b.required_modules # None => AllFound(b.required_modules[1])
    /\ b.build_command # None => FindPath(b.build_command[1]) # None

\* the commands have all been run
CommandsDone == cmds = PlannedCommands(cfg.build) /\ PlanComplete(cfg.build)

\* the steps of build_phase happen in order: each one has happened only if
\* the ones before it are complete (every build here names an executable, so
\* a finished collection leaves executables_on_disk non-empty)
PhaseOrder ==
    /\ IsPrefixOf(cmds, PlannedCommands(cfg.build))
    /\ cmds # <<>> => log_file
    /\ pc \notin {"load", "check", "log", "packages", "modules", "build", "failed"}
           => CommandsDone
    /\ executables_on_disk # <<>> => CommandsDone
    /\ (queued # {} \/ scanned # <<>> \/ res # <<>>) => executables_on_disk # <<>>
    /\ zf # None =>
           /\ scanned # <<>>
           /\ elves = <<>> /\ work = <<>> /\ item = None
           /\ FindPath(cfg.build.version_file) # None

\* an error is returned from the step that raised it: the state is failed,
\* and the error of a command names the last command that was run
Fatal ==
    result # None =>
        /\ pc = "failed"
        /\ result[1].kind \in {"Build", "Utf8"} =>
               (cmds # <<>> /\ result[1].arg = cmds[Len(cmds)])

\* C15 (build phase order and fatality): the commands run are always a prefix
\* of: the package install (if required_packages), each required module in
\* list order then one ldconfig, the build command (if present); collection
\* happens after all of them, dependency resolution after collection, the
\* version read and the archive insertion after resolution; an error is
\* returned at once, and no step is taken after it.
BuildPhaseOrder == [](PhaseOrder /\ Fatal) /\ [][pc # "failed"]_vars

\* a required module exits non-zero after the package install: ldconfig and
\* the build command, which were to follow, are not run
ModuleFailureStops ==
    /\ pc = "failed"
    /\ result # None /\ result[1].kind = "Build"
    /\ cmds = <<APT_GET, FindPath(N_p)[1]>>
    /\ PlannedCommands(cfg.build) = <<APT_GET, FindPath(N_p)[1], LDCONFIG, FindPath(N_p)[1]>>
    /\ executables_on_disk = <<>> /\ zf = None

\* ------------------------------------------------------------------------
\* Collection
\* ------------------------------------------------------------------------

\* the regular files anywhere below the directory dir
FilesBelow(dir) == {f \in RegularFiles : IsPrefixOf(dir \o <<Slash>>, f)}

\* the path of f relative to the directory dir above it
RelativeTo(dir, f) == SubSeq(f, Len(dir) + 2, Len(f))

\* the file or directory the item names, or None
ItemPath(it) == IF FindPath(it) = None THEN None ELSE Canonicalize(FindPath(it)[1])

\* the entries the trailing-slash rule gives the item it under the prefix P
RuleEntries(it, P) ==
    LET path == ItemPath(it)[1]
        base == FileName(it)[1]
    IN  IF path \in Directories
        THEN { FileEntry(f, PathJoin(IF EndsWith(it, Slash) THEN P ELSE PathJoin(P, base),
                                     RelativeTo(path, f))) : f \in FilesBelow(path) }
        ELSE { FileEntry(path, PathJoin(P, base)) }

\* the list on_disk holds, for each item in turn, exactly the entries of the
\* rule
RECURSIVE FollowsRule(_, _, _)
FollowsRule(items, P, on_disk) ==
    IF items = <<>> THEN on_disk = <<>>
    ELSE LET want == RuleEntries(Head(items), P)
             n    == Cardinality(want)
         IN  /\ Len(on_disk) >= n
             /\ Range(SubSeq(on_disk, 1, n)) = want
             /\ FollowsRule(Tail(items), P, SubSeq(on_disk, n + 1, Len(on_disk)))

\* collection has succeeded
CollectionDone == pc \in {"resolve", "seed", "pop", "deps", "version", "bundle", "done"}

\* C16 (trailing-slash rule): after collection, each list holds for each of
\* its items: for a directory item, one entry per file below it, named
\* P/basename(item)/r when the item does not end in '/' and P/r when it does,
\* r being the file's path relative to the directory; for a file item, one
\* entry named P/basename(item).
TrailingSlashRule ==
    CollectionDone =>
        /\ FollowsRule(cfg.build.executables, BIN, executables_on_disk)
        /\ FollowsRule(cfg.build.libraries, LIB, libraries_on_disk)
        /\ FollowsRule(cfg.build.resources, RESDIR, resources_on_disk)
        /\ FollowsRule(cfg.build.extra_elf_files, UNUSED, extra_elf_on_disk)

\* the same directory collected as "d/" into the executables and as "d" into
\* the resources: its nested file is bin/e/y and res/d/e/y
DirectoryBothWays ==
    /\ CollectionDone
    /\ cfg.build.executables = <<N_dslash>>
    /\ cfg.build.resources = <<N_d>>
    /\ FileEntry(F_dey, PathJoin(BIN, <<"e", "/", "y">>)) \in Range(executables_on_disk)
    /\ FileEntry(F_dey, PathJoin(RESDIR, <<"d", "/", "e", "/", "y">>))
           \in Range(resources_on_disk)

\* ------------------------------------------------------------------------
\* The resolver's seeds and steps
\* ------------------------------------------------------------------------

\* the seeds in the order resolve_deps receives them
SeedList == Elves(executables_on_disk, extra_elf_on_disk, libraries_on_disk)

\* the alias table after the alias candidates of every seed of the list have
\* been recorded in turn
RECURSIVE RecordAll(_, _)
RecordAll(seeds, m) ==
    IF seeds = <<>> THEN m
    ELSE RecordAll(Tail(seeds), FindAdditionalVersions(Head(seeds), m))

\* the traversal is about to start: the seeds are prepared, nothing is popped
TraversalStarts == pc = "pop" /\ scanned = <<>>

\* C17 (seed preparation): when the traversal starts, the basename of every
\* seed's archive name is in own_libs and own_extra_libs holds the alias
\* candidates of every seed, recorded seed after seed, whether or not the
\* seed's location was already queued.
SeedPreparation ==
    TraversalStarts =>
        /\ \A i \in 1..Len(SeedList) : SeedOwnLibs(SeedList[i]) \subseteq own_libs
        /\ own_extra_libs = RecordAll(SeedList, EmptyMap)

\* C18 (alias step): reading a DT_NEEDED entry d that is not in the baseline
\* cache, not in own_libs and a key of own_extra_libs appends exactly the
\* stored alias entry to the result, adds d to own_libs, leaves the work list,
\* queued and the alias table as they are and goes on with the next entry,
\* whatever the build cache holds for d; reading a d that is in own_libs
\* changes none of the result, own_libs, the work list and queued.
AliasStep ==
    [][\A d \in host_needs :
          DepRead(d) =>
              /\ (d \notin Baseline /\ d \notin own_libs /\ d \in DOMAIN own_extra_libs) =>
                     /\ res' = Append(res, own_extra_libs[d])
                     /\ own_libs' = own_libs \cup {d}
                     /\ UNCHANGED <<work, queued, own_extra_libs, result>>
                     /\ pc' = "deps"
              /\ d \in own_libs => UNCHANGED <<res, own_libs, work, queued>>]_vars

\* an alias that the build cache does not know was needed and emitted, once,
\* and the run succeeded
AliasEmittedWithoutCache ==
    /\ Succeeded
    /\ \E d \in DOMAIN own_extra_libs :
           /\ d \in needed /\ d \notin Baseline
           /\ GetPath(d) = None
           /\ Cardinality({i \in 1..Len(res) : res[i] = own_extra_libs[d]}) = 1

\* no file is pushed or parsed twice
NoRepeat(s) == \A i, j \in 1..Len(s) : s[i] = s[j] => i = j

\* C19 (scan at most once): no path is on the work list twice, no path is
\* parsed twice, no path on the work list has been parsed, and every path on
\* the work list or parsed is in queued.
ScanAtMostOnce ==
    /\ NoRepeat(work)
    /\ NoRepeat(scanned)
    /\ Range(work) \cap Range(scanned) = {}
    /\ Range(work) \cup Range(scanned) \subseteq queued

\* the two sonames g and g.1 of the file /u/g.1 were both needed in a run
\* that parsed that file and another one and succeeded
SharedFileNeededTwice ==
    /\ Succeeded
    /\ {N_g, N_g1} \subseteq needed
    /\ F_g1 \in Range(scanned)
    /\ Len(scanned) >= 2

\* ------------------------------------------------------------------------
\* insert_files and the order of its input
\* ------------------------------------------------------------------------

\* the lists as long as fs that hold the same set of entries as fs: every
\* permutation of fs is one of them
SameEntries(fs) ==
    {g \in [1..Len(fs) -> Range(fs)] : Range(g) = Range(fs)}

\* C20 (order independence): a call of insert_files on a list in which no
\* name has two locations leaves the archive that the call leaves on every
\* permutation of the list, and on every list of that length with the same
\* set of entries: the entries written and their order are the same.
OrderIndependence ==
    [][(InsertCall /\ ConflictNames(files) = {}) =>
           /\ pc' = "inserted"
           /\ \A g \in SameEntries(files) :
                  InsertFiles(zf[1], g) = [ok |-> TRUE, zf |-> zf'[1], err |-> None]]_vars

\* three entries handed over in an order that is not the order of their
\* names, written in the order of their names
UnsortedListWritten ==
    /\ pc = "inserted"
    /\ files = <<FileEntry(F_a, D_y), FileEntry(F_p, N_a), FileEntry(F_a, D_x)>>
    /\ zf = Some(<<ZipFile(N_a, F_p), ZipDir(N_d), ZipFile(D_x, F_a), ZipFile(D_y, F_a)>>)

\* ------------------------------------------------------------------------
\* Files that are not ELF, the bundle file, termination
\* ------------------------------------------------------------------------

\* the top of the work list
Top == work[Len(work)]

\* C21 (non-ELF tolerance): when find_elf_deps returns NotElf for the popped
\* item, the item leaves the work list and nothing else of the resolver
\* changes: nothing is emitted, no error is returned, and the next step pops
\* the next item or, with an empty work list, returns; every other error of
\* find_elf_deps is returned by resolve_deps, with nothing emitted.
NonElfTolerance ==
    [][/\ (Pop /\ elf_deps' = "NotElf") =>
              /\ work' = SubSeq(work, 1, Len(work) - 1)
              /\ pc' = "pop"
              /\ UNCHANGED <<res, queued, own_libs, own_extra_libs, elves, result, needed>>
       /\ (Pop /\ elf_deps' \notin {"elf", "NotElf"}) =>
              /\ pc' = "failed"
              /\ result' = Some(Err("Ld", Top))
              /\ UNCHANGED res
       /\ (pc = "pop" /\ elf_deps = "NotElf") =>
              IF work # <<>> THEN scanned' = Append(scanned, Top)
              ELSE pc' = "version" /\ UNCHANGED <<res, result>>]_vars

\* a file was ignored as not ELF after another file was parsed, and items
\* remain on the work list
NonElfIgnored ==
    /\ pc = "pop"
    /\ elf_deps = "NotElf"
    /\ result = None
    /\ Len(scanned) >= 2
    /\ work # <<>>

\* the error of a build command, of a program or item that was not found, or
\* of resolve_deps
EarlyError ==
    /\ result # None
    /\ \/ result[1].kind \in {"Build", "Utf8", "Find", "Ld", "MissingDependency"}
       \/ (result[1].kind = "IO" /\ cmds # <<>> /\ result[1].arg = cmds[Len(cmds)])

\* C22 (archive created only after successful resolution): the bundle file
\* exists only when the log file exists, every build command has run, the
\* files are collected and resolve_deps has returned its list; after an error
\* of a build command, of collection or of resolve_deps (MissingDependency
\* included) there is no bundle file, and the log file exists.
ArchiveAfterResolution ==
    /\ zf # None =>
           /\ log_file
           /\ CommandsDone
           /\ elves = <<>> /\ work = <<>> /\ item = None
           /\ pc \in {"bundle", "done", "failed"}
           /\ ~EarlyError
    /\ EarlyError => (zf = None /\ log_file)

\* a dependency was found and queued, the next one is missing: resolve_deps
\* failed, the log file exists and no bundle file does
NoBundleAfterMissingDependency ==
    /\ pc = "failed"
    /\ result # None /\ result[1].kind = "MissingDependency"
    /\ res # <<>>
    /\ log_file
    /\ zf = None

\* a file of the host needs a file that needs it back
CyclicHost == {N_g, N_m} \subseteq host_needs \/ N_g1 \in host_needs

\* resolve_deps has returned
Returned == pc \in {"version", "failed"}

\* C23 (resolver termination): on every host, cyclic DT_NEEDED graphs
\* included, the files popped and the files waiting are never more than the
\* files queued, which are files of the host; resolve_deps returns, and when
\* it returns its list the work list is empty.
ResolverTerminates ==
    /\ [](/\ Len(scanned) + Len(work) <= Cardinality(queued)
          /\ queued \subseteq RegularFiles
          /\ pc = "version" => (work = <<>> /\ elves = <<>> /\ result = None))
    /\ <>Returned

\* resolve_deps returned its list on a host where /u/g.1 and /u/h need each
\* other, after parsing both
CycleResolved ==
    /\ pc = "version"
    /\ CyclicHost
    /\ {N_g, N_m} \subseteq needed
    /\ {F_g1, F_h} \subseteq Range(scanned)
    /\ work = <<>>

====
